---- MODULE Spec2Model ----
(***************************************************************************)
(* A model of modin's GandivaQueryCompiler                                 *)
(* (modin/data_management/query_compiler/gandiva_query_compiler.py):       *)
(*   - the per-partition query step gandiva_query with its helpers         *)
(*     can_be_condition, build_node and filter_with_selection_vector;      *)
(*   - the remote task sum_pyarrow_table and the reduction                 *)
(*     GandivaQueryCompiler.sum over the partition grid.                   *)
(*                                                                         *)
(* Three specifications share the module:                                  *)
(*   SpecQuery      gandiva_query, statement by statement, on one table    *)
(*   SpecBuildNode  build_node applied on its own to an arbitrary term     *)
(*   SpecSum        sum, with the remote tasks running concurrently        *)
(***************************************************************************)
EXTENDS Integers, Sequences, FiniteSets, TLC

VARIABLES
    \* ---- gandiva_query (lines 138-148) ----
    table,          \* the partition's table: its schema and its record batches
    query,          \* the query, as the tree pandas' parser makes of it
    qpc,            \* the statement gandiva_query is about to execute
    expr,           \* line 139: the parsed expression (expr.terms)
    made,           \* number of nodes allocated through the TreeExprBuilder
    root,           \* line 143
    cond,           \* line 144
    filt,           \* line 145
    sel_vec,        \* line 146
    result,         \* line 147
    error,          \* the exception gandiva_query raised, if any
    \* ---- GandivaQueryCompiler.sum (lines 172-191) ----
    partitions,     \* self.data.partitions: the grid of partition tables
    new_partitions, \* line 174: the task handle of every partition
    submitted,      \* number of tasks submitted per partition
    spc,            \* the statement sum is about to execute
    sum_partitions, \* line 180
    names,          \* line 181
    accumulator,    \* line 182
    fi,             \* line 183: index i of the outer loop (0-based)
    fj,             \* line 184: position in sum_partitions of the inner loop
    sum_result,     \* line 191
    sum_error       \* the exception sum raised, if any

qvars == <<table, query, qpc, expr, made, root, cond, filt, sel_vec, result, error>>
svars == <<partitions, new_partitions, submitted, spc, sum_partitions, names,
           accumulator, fi, fj, sum_result, sum_error>>
vars == <<qvars, svars>>

\* Python's None, for variables that hold records
None == [kind |-> "None"]

(***************************************************************************)
(* Bounds                                                                  *)
(***************************************************************************)
\* most rows a partition's table holds in the query model
MaxRows == 3
\* most partitions (row-blocks x column-blocks) of a grid in the sum model
MaxPartitions == 4

(***************************************************************************)
(* Sequences                                                               *)
(***************************************************************************)
SeqsUpTo(S, n) == UNION {[1..k -> S] : k \in 0..n}

RECURSIVE Flatten(_)
Flatten(ss) == IF ss = <<>> THEN <<>> ELSE Head(ss) \o Flatten(Tail(ss))

RECURSIVE SumSeq(_)
SumSeq(s) == IF s = <<>> THEN 0 ELSE Head(s) + SumSeq(Tail(s))

\* every way to cut a sequence into non-empty contiguous pieces
RECURSIVE Layouts(_)
Layouts(s) ==
    IF s = <<>> THEN {<<>>}
    ELSE UNION {{<<SubSeq(s, 1, k)>> \o rest : rest \in Layouts(SubSeq(s, k + 1, Len(s)))}
                : k \in 1..Len(s)}

(***************************************************************************)
(* The expression tree pandas' parser hands over (Expr(...).terms).        *)
(* Every node carries the return type pandas infers for it.                *)
(***************************************************************************)
\* pandas: CMP_OPS_SYMS + BOOL_OPS_SYMS; Op.__init__ rewrites "and", "or", "not"
\* to "&", "|", "~", so a tree never carries the keyword forms
BoolReturning == {">", "<", ">=", "<=", "==", "!=", "in", "not in", "&", "|"}

\* numpy's result type of two operand types
ResultType(t1, t2) ==
    IF t1 = "float64" \/ t2 = "float64" THEN "float64"
    ELSE IF t1 = "int64" \/ t2 = "int64" THEN "int64"
    ELSE "bool"

\* the schema every table of the query model has: table.schema.names / .types
SchemaNames == <<"a", "b">>
SchemaTypes == <<"int64", "float64">>
FieldIndex(name) == CHOOSE i \in 1..Len(SchemaNames) : SchemaNames[i] = name
InSchema(name) == \E i \in 1..Len(SchemaNames) : SchemaNames[i] = name

\* the return type of a node (Term: the resolver's FakeSeries dtype)
ReturnTypeOf(t) ==
    IF t.kind = "Term"
    THEN IF InSchema(t.name) THEN SchemaTypes[FieldIndex(t.name)] ELSE "object"
    ELSE IF t.kind = "Other" THEN "object"
    ELSE t.return_type

Constant(v) == [kind |-> "Constant", value |-> v, return_type |-> "int64"]
Term(n) == [kind |-> "Term", name |-> n]
BinOp(op, l, r) ==
    [kind |-> "BinOp", op |-> op, lhs |-> l, rhs |-> r,
     return_type |-> IF op \in BoolReturning THEN "bool"
                     ELSE IF op = "/" THEN "float64"
                     ELSE ResultType(ReturnTypeOf(l), ReturnTypeOf(r))]
UnaryOp(op, x) ==
    [kind |-> "UnaryOp", op |-> op, operand |-> x,
     return_type |-> IF ReturnTypeOf(x) = "bool" THEN "bool" ELSE "int64"]
MathCall(op, xs) ==
    [kind |-> "MathCall", op |-> op, operands |-> xs,
     return_type |-> ReturnTypeOf(xs[1])]
\* a node of a kind build_node has no case for
OtherTerm == [kind |-> "Other"]

(***************************************************************************)
(* The queries of the model.  The operator symbols are those pandas'       *)
(* parser can put into a tree: "like" (a key of cmp_ops) and "cbrt" (a key *)
(* of math_calls) are not among them, BinOp("like") cannot be constructed. *)
(***************************************************************************)
CmpSyms == {"==", "!=", ">", "<", "<=", ">="}
LogicSyms == {"&", "|"}
ArithSyms == {"+", "-", "*", "/", "**"}
OtherBinSyms == {"%", "//", "in"}
BinSyms == CmpSyms \cup LogicSyms \cup ArithSyms \cup OtherBinSyms
UnarySyms == {"~", "-"}
MathSyms == {"log", "sin"}

\* "c" is a name the table has no column for
Atoms == {Term("a"), Term("b"), Term("c"), Constant(2)}

Level1 ==
    {BinOp(op, x, y) : op \in BinSyms, x \in Atoms, y \in Atoms}
    \cup {UnaryOp(op, x) : op \in UnarySyms, x \in Atoms}
    \cup {MathCall(f, <<x>>) : f \in MathSyms, x \in Atoms}

Operands2 ==
    {Term("a"),
     BinOp(">", Term("a"), Constant(2)),
     BinOp("<", Term("b"), Constant(2)),
     BinOp("+", Term("a"), Term("b")),
     BinOp("%", Term("a"), Term("b")),
     MathCall("sin", <<Term("a")>>),
     UnaryOp("-", Term("a"))}

Level2 ==
    {BinOp(op, x, y) : op \in {"&", "|", ">", "+", "%"}, x \in Operands2, y \in Operands2}
    \cup {UnaryOp(op, x) : op \in UnarySyms, x \in Operands2}
    \cup {MathCall("log", <<x>>) : x \in Operands2}

Queries == Atoms \cup Level1 \cup Level2 \cup {OtherTerm}

\* the names a tree refers to
RECURSIVE TermNames(_)
TermNames(t) ==
    IF t.kind = "Term" THEN {t.name}
    ELSE IF t.kind = "BinOp" THEN TermNames(t.lhs) \cup TermNames(t.rhs)
    ELSE IF t.kind = "UnaryOp" THEN TermNames(t.operand)
    ELSE IF t.kind = "MathCall" THEN UNION {TermNames(t.operands[i]) : i \in 1..Len(t.operands)}
    ELSE {}

(***************************************************************************)
(* Exceptions                                                              *)
(***************************************************************************)
Exc(exc, line, term) == [kind |-> "Error", exc |-> exc, line |-> line, term |-> term]

(***************************************************************************)
(* query: the operator tables (lines 55-73)                                *)
(***************************************************************************)
unary_ops_with_negative == ("~" :> "not") @@ ("-" :> "negative")
unary_ops == ("~" :> "not")
math_calls == ("log" :> "log") @@ ("exp" :> "exp") @@ ("log10" :> "log10") @@ ("cbrt" :> "cbrt")
bin_ops_with_mod ==
    ("+" :> "add") @@ ("-" :> "subtract") @@ ("*" :> "multiply") @@ ("/" :> "divide")
    @@ ("**" :> "power") @@ ("%" :> "mod")
bin_ops ==
    ("+" :> "add") @@ ("-" :> "subtract") @@ ("*" :> "multiply") @@ ("/" :> "divide")
    @@ ("**" :> "power")
cmp_ops ==
    ("==" :> "equal") @@ ("!=" :> "not_equal") @@ (">" :> "greater_than")
    @@ ("<" :> "less_than") @@ ("<=" :> "less_than_or_equal_to")
    @@ (">=" :> "greater_than_or_equal_to") @@ ("like" :> "like")

(***************************************************************************)
(* The TreeExprBuilder's nodes                                             *)
(***************************************************************************)
make_literal(value, type) == [kind |-> "literal", value |-> value, type |-> type]
make_field(name, type) == [kind |-> "field", name |-> name, type |-> type]
make_and(children) == [kind |-> "and", children |-> children]
make_or(children) == [kind |-> "or", children |-> children]
make_function(name, children, return_type) ==
    [kind |-> "function", name |-> name, children |-> children, type |-> return_type]

\* what a call of build_node comes to: the node it returns or the exception it
\* raises, and the number of nodes it had the builder allocate
Returned(node, n) == [ok |-> TRUE, node |-> node, err |-> None, made |-> n]
Raised(err, n) == [ok |-> FALSE, node |-> None, err |-> err, made |-> n]

(***************************************************************************)
(* build_node (lines 75-120)                                               *)
(***************************************************************************)
RECURSIVE build_node(_)
build_node(terms) ==
    IF terms.kind = "Constant"
    THEN Returned(make_literal(terms.value, terms.return_type), 1)
    ELSE IF terms.kind = "Term"
    THEN IF InSchema(terms.name)
         THEN Returned(make_field(terms.name, SchemaTypes[FieldIndex(terms.name)]), 1)
         ELSE Raised(Exc("KeyError", 82, "Term"), 0)
    ELSE IF terms.kind = "BinOp"
    THEN LET lnode == build_node(terms.lhs) IN
         IF ~lnode.ok THEN lnode
         ELSE LET rnode == build_node(terms.rhs)
                  n == lnode.made + rnode.made
                  args == <<lnode.node, rnode.node>>
              IN
              IF ~rnode.ok THEN Raised(rnode.err, n)
              ELSE IF terms.op = "&" THEN Returned(make_and(args), n + 1)
              ELSE IF terms.op = "|" THEN Returned(make_or(args), n + 1)
              ELSE IF terms.op \in DOMAIN cmp_ops
              THEN IF terms.return_type # "bool"
                   THEN Raised(Exc("AssertionError", 94, "BinOp"), n)
                   ELSE Returned(make_function(cmp_ops[terms.op], args, terms.return_type), n + 1)
              ELSE IF terms.op \in DOMAIN bin_ops
              THEN Returned(make_function(bin_ops[terms.op], args, terms.return_type), n + 1)
              ELSE Raised(Exc("TypeError", 120, "BinOp"), n)
    ELSE IF terms.kind = "UnaryOp"
    THEN IF terms.op \notin DOMAIN unary_ops
         THEN Raised(Exc("KeyError", 106, "UnaryOp"), 0)
         ELSE LET operand == build_node(terms.operand) IN
              IF ~operand.ok THEN operand
              ELSE Returned(make_function(unary_ops[terms.op], <<operand.node>>,
                                          terms.return_type), operand.made + 1)
    ELSE IF terms.kind = "MathCall"
    THEN LET child == build_node(terms.operands[1]) IN
         IF ~child.ok THEN child
         ELSE IF terms.op \notin DOMAIN math_calls
         THEN Raised(Exc("KeyError", 117, "MathCall"), child.made)
         ELSE Returned(make_function(math_calls[terms.op], <<child.node>>,
                                     terms.return_type), child.made + 1)
    ELSE Raised(Exc("TypeError", 120, terms.kind), 0)

(***************************************************************************)
(* can_be_condition (lines 122-129)                                        *)
(***************************************************************************)
can_be_condition_any_binop(e) ==
    IF e.kind = "BinOp" THEN TRUE
    ELSE IF e.kind = "UnaryOp" THEN e.op = "~"
    ELSE FALSE

can_be_condition(e) ==
    IF e.kind = "BinOp" THEN e.op \in DOMAIN cmp_ops \/ e.op \in {"&", "|"}
    ELSE IF e.kind = "UnaryOp" THEN e.op = "~"
    ELSE FALSE

(***************************************************************************)
(* Tables of the query model: a schema and the record batches to_batches() *)
(* cuts the table into.  A row is the tuple of its values in schema order. *)
(***************************************************************************)
RowValues == {<<1, 5>>, <<4, 1>>}

Table(batches) == [kind |-> "Table", names |-> SchemaNames, batches |-> batches]

Tables == {Table(l) : l \in UNION {Layouts(rows) : rows \in SeqsUpTo(RowValues, MaxRows)}}

\* table.to_batches(): a table without rows has no batch
to_batches(t) == t.batches

\* the columns of a record batch, in schema order
BatchColumns(batch) ==
    [c \in 1..Len(SchemaNames) |-> [i \in 1..Len(batch) |-> batch[i][c]]]

\* pa.lib.take(c, indices); the indices count from 0
take(c, indices) == [k \in 1..Len(indices) |-> c[indices[k] + 1]]

\* pa.Table.from_arrays(columns, names)
from_arrays(columns, colnames) == [kind |-> "Table", names |-> colnames, columns |-> columns]

(***************************************************************************)
(* The filter engine's row semantics, for the trees whose functions the    *)
(* model computes exactly: and, or, not, the comparisons, add, subtract    *)
(* and multiply.                                                           *)
(***************************************************************************)
CmpFunctions == {"equal", "not_equal", "greater_than", "less_than",
                 "less_than_or_equal_to", "greater_than_or_equal_to"}
ArithFunctions == {"add", "subtract", "multiply"}

NodeIsBool(n) ==
    \/ n.kind \in {"and", "or"}
    \/ n.kind = "function" /\ n.name \in CmpFunctions \cup {"not"}

RECURSIVE Exact(_)
Exact(n) ==
    IF n.kind \in {"literal", "field"} THEN TRUE
    ELSE IF n.kind \in {"and", "or"}
    THEN \A i \in 1..Len(n.children) : NodeIsBool(n.children[i]) /\ Exact(n.children[i])
    ELSE IF n.name \in CmpFunctions \cup ArithFunctions
    THEN \A i \in 1..Len(n.children) : ~NodeIsBool(n.children[i]) /\ Exact(n.children[i])
    ELSE IF n.name = "not"
    THEN NodeIsBool(n.children[1]) /\ Exact(n.children[1])
    ELSE FALSE

RECURSIVE NumValue(_, _)
NumValue(n, row) ==
    IF n.kind = "literal" THEN n.value
    ELSE IF n.kind = "field" THEN row[FieldIndex(n.name)]
    ELSE LET x == NumValue(n.children[1], row)
             y == NumValue(n.children[2], row)
         IN IF n.name = "add" THEN x + y
            ELSE IF n.name = "subtract" THEN x - y
            ELSE x * y

RECURSIVE BoolValue(_, _)
BoolValue(n, row) ==
    IF n.kind = "and" THEN \A i \in 1..Len(n.children) : BoolValue(n.children[i], row)
    ELSE IF n.kind = "or" THEN \E i \in 1..Len(n.children) : BoolValue(n.children[i], row)
    ELSE IF n.name = "not" THEN ~BoolValue(n.children[1], row)
    ELSE LET x == NumValue(n.children[1], row)
             y == NumValue(n.children[2], row)
         IN IF n.name = "equal" THEN x = y
            ELSE IF n.name = "not_equal" THEN x # y
            ELSE IF n.name = "greater_than" THEN x > y
            ELSE IF n.name = "less_than" THEN x < y
            ELSE IF n.name = "less_than_or_equal_to" THEN x <= y
            ELSE x >= y

\* the 0-based positions, ascending, of the rows of a batch a predicate keeps
RECURSIVE SelectFrom(_, _, _)
SelectFrom(n, batch, i) ==
    IF i > Len(batch) THEN <<>>
    ELSE (IF BoolValue(n, batch[i]) THEN <<i - 1>> ELSE <<>>) \o SelectFrom(n, batch, i + 1)

\* every ascending sequence of 0-based positions of a batch
RECURSIVE AscendingFrom(_, _)
AscendingFrom(len, i) ==
    IF i > len THEN {<<>>}
    ELSE LET rest == AscendingFrom(len, i + 1)
         IN rest \cup {<<i - 1>> \o r : r \in rest}

\* filt.evaluate(batch, pool): the selection vector; for a tree outside the exact
\* fragment the engine's choice of rows is left open
evaluate(condition, batch) ==
    IF Exact(condition.root)
    THEN {SelectFrom(condition.root, batch, 1)}
    ELSE AscendingFrom(Len(batch), 1)

SelectionVector(indices) == [kind |-> "SelectionVector", indices |-> indices]

(***************************************************************************)
(* filter_with_selection_vector (lines 131-136)                            *)
(***************************************************************************)
filter_with_selection_vector(t, s) ==
    LET record_batch == to_batches(t)[1]
        indices == s.indices
        columns == BatchColumns(record_batch)
        new_columns == [c \in 1..Len(columns) |-> take(columns[c], indices)]
    IN from_arrays(new_columns, t.names)

(***************************************************************************)
(* Tables of the sum model: a sequence of columns, each with its name, its *)
(* type and the chunks of its data.  The values of a string column are     *)
(* immaterial to sum and are given as 0.                                   *)
(***************************************************************************)
Column(name, type, chunks) == [name |-> name, type |-> type, chunks |-> chunks]

\* The partitions of the first column-block are cut from one CSV file and have
\* its columns y, x; the reader infers the column types partition by partition.
\* y holds text, x = [1, 2] stored as two chunks
TableSX == <<Column("y", "string", <<<<0>>>>), Column("x", "int64", <<<<1>>, <<2>>>>)>>
\* y holds text, x = [3, 4]
TableSX34 == <<Column("y", "string", <<<<0>>>>), Column("x", "int64", <<<<3, 4>>>>)>>
\* y holds numbers, x = [3, 4]
TableYX == <<Column("y", "float64", <<<<100>>>>), Column("x", "int64", <<<<3, 4>>>>)>>
\* y and x both hold text: only non-numeric columns
TableS == <<Column("y", "string", <<<<0>>>>), Column("x", "string", <<<<0, 0>>>>)>>
\* a table of another column-block with a column x = [3, 4], in two chunks
TableX == <<Column("x", "int64", <<<<3>>, <<4>>>>)>>
\* pyarrow.Table.from_pandas(pandas.DataFrame()): what the CSV reader puts into
\* every column-block but the first
TableEmpty == <<>>

FirstBlockTables == {TableSX, TableSX34, TableYX, TableS}
OtherBlockTables == {TableEmpty, TableX}

Cells(rows, cols) == (1..rows) \X (1..cols)

Grid(rows, cols, parts) == [rows |-> rows, cols |-> cols, parts |-> parts]

Grids ==
    UNION {{Grid(rows, cols, parts) :
              parts \in {f \in [Cells(rows, cols) -> FirstBlockTables \cup OtherBlockTables] :
                           \A cell \in Cells(rows, cols) :
                               f[cell] \in (IF cell[2] = 1 THEN FirstBlockTables
                                            ELSE OtherBlockTables)}}
           : <<rows, cols>> \in {rc \in (1..MaxPartitions) \X (1..MaxPartitions) :
                                   rc[1] * rc[2] <= MaxPartitions}}

\* pa.types.is_floating(type) or pa.types.is_integer(type)
IsNumeric(column) == column.type \in {"int64", "float64"}

(***************************************************************************)
(* sum_pyarrow_table (lines 17-26)                                         *)
(***************************************************************************)
ChunkSums(column) == [k \in 1..Len(column.chunks) |-> SumSeq(column.chunks[k])]

sum_pyarrow_table(t) ==
    LET numeric == SelectSeq(t, IsNumeric)
    IN [kind |-> "Table",
        names |-> [i \in 1..Len(numeric) |-> numeric[i].name],
        types |-> [i \in 1..Len(numeric) |-> numeric[i].type],
        values |-> [i \in 1..Len(numeric) |-> SumSeq(ChunkSums(numeric[i]))]]

(***************************************************************************)
(* Remote tasks                                                            *)
(***************************************************************************)
Unsubmitted == [state |-> "unsubmitted", value |-> None]
Pending == [state |-> "pending", value |-> None]
Done(value) == [state |-> "done", value |-> value]
Failed == [state |-> "failed", value |-> None]

\* the cells in the order of the nested comprehension of line 174: row by row
CellAt(k, cols) == <<((k - 1) \div cols) + 1, ((k - 1) % cols) + 1>>

\* the comprehension of line 174 ends when it has gone through every partition
AllDispatched_first_row(n, grid) == n >= grid.cols

AllDispatched(n, grid) == n = grid.rows * grid.cols

\* the handles ray.get is given at line 180: new_partitions[:, 0]
GatherCells_whole_grid(grid) == Cells(grid.rows, grid.cols)

GatherCells_first_row(grid) == {<<1, 1>>}

GatherCells(grid) == {<<r, 1>> : r \in 1..grid.rows}

(***************************************************************************)
(* Initial states                                                          *)
(***************************************************************************)
QueryIdle ==
    /\ table = Table(<<>>)
    /\ query = OtherTerm
    /\ qpc = "idle"
    /\ expr = None /\ made = 0 /\ root = None /\ cond = None /\ filt = None
    /\ sel_vec = None /\ result = None /\ error = None

SumIdle ==
    /\ partitions = Grid(1, 1, [cell \in Cells(1, 1) |-> TableEmpty])
    /\ new_partitions = [cell \in Cells(1, 1) |-> Unsubmitted]
    /\ submitted = [cell \in Cells(1, 1) |-> 0]
    /\ spc = "idle"
    /\ sum_partitions = <<>> /\ names = <<>> /\ accumulator = None
    /\ fi = 0 /\ fj = 0 /\ sum_result = None /\ sum_error = None

\* gandiva_query(table, query) has been called
InitQuery ==
    /\ table \in Tables
    /\ query \in Queries
    /\ qpc = "gen_table_expr"
    /\ expr = None /\ made = 0 /\ root = None /\ cond = None /\ filt = None
    /\ sel_vec = None /\ result = None /\ error = None
    /\ SumIdle

\* build_node(table, terms, builder) is about to be called on some tree whose
\* names gen_table_expr has resolved
InitBuildNode ==
    /\ table = Table(<<>>)
    /\ query \in {q \in Queries : \A name \in TermNames(q) : InSchema(name)}
    /\ qpc = "call_build_node"
    /\ expr = None /\ made = 0 /\ root = None /\ cond = None /\ filt = None
    /\ sel_vec = None /\ result = None /\ error = None
    /\ SumIdle

\* sum() has been called on a query compiler whose data is some grid
InitSum ==
    /\ partitions \in Grids
    /\ new_partitions = [cell \in Cells(partitions.rows, partitions.cols) |-> Unsubmitted]
    /\ submitted = [cell \in Cells(partitions.rows, partitions.cols) |-> 0]
    /\ spc = "dispatch"
    /\ sum_partitions = <<>> /\ names = <<>> /\ accumulator = None
    /\ fi = 0 /\ fj = 0 /\ sum_result = None /\ sum_error = None
    /\ QueryIdle

(***************************************************************************)
(* gandiva_query (lines 138-148), one action per statement                 *)
(***************************************************************************)
\* line 139, gen_table_expr (lines 45-51): every name resolves through the
\* table's schema
GenTableExpr ==
    /\ qpc = "gen_table_expr"
    /\ TermNames(query) \subseteq {SchemaNames[i] : i \in 1..Len(SchemaNames)}
    /\ expr' = query
    /\ qpc' = "can_be_condition"
    /\ UNCHANGED <<table, query, made, root, cond, filt, sel_vec, result, error>>
    /\ UNCHANGED svars

\* line 139: a name the schema does not have
GenTableExprUndefined ==
    /\ qpc = "gen_table_expr"
    /\ ~(TermNames(query) \subseteq {SchemaNames[i] : i \in 1..Len(SchemaNames)})
    /\ error' = Exc("UndefinedVariableError", 139, "Term")
    /\ qpc' = "raised"
    /\ UNCHANGED <<table, query, expr, made, root, cond, filt, sel_vec, result>>
    /\ UNCHANGED svars

\* line 140, the check passes
RootIsCondition ==
    /\ qpc = "can_be_condition"
    /\ can_be_condition(expr)
    /\ qpc' = "build_node"
    /\ UNCHANGED <<table, query, expr, made, root, cond, filt, sel_vec, result, error>>
    /\ UNCHANGED svars

\* lines 140-141
RootIsNoCondition ==
    /\ qpc = "can_be_condition"
    /\ ~can_be_condition(expr)
    /\ error' = Exc("ValueError", 141, expr.kind)
    /\ qpc' = "raised"
    /\ UNCHANGED <<table, query, expr, made, root, cond, filt, sel_vec, result>>
    /\ UNCHANGED svars

\* lines 142-143, build_node returns
BuildRoot ==
    /\ qpc = "build_node"
    /\ build_node(expr).ok
    /\ root' = build_node(expr).node
    /\ made' = build_node(expr).made
    /\ qpc' = "make_condition"
    /\ UNCHANGED <<table, query, expr, cond, filt, sel_vec, result, error>>
    /\ UNCHANGED svars

\* lines 142-143, build_node raises
BuildRootRaises ==
    /\ qpc = "build_node"
    /\ ~build_node(expr).ok
    /\ error' = build_node(expr).err
    /\ made' = build_node(expr).made
    /\ qpc' = "raised"
    /\ UNCHANGED <<table, query, expr, root, cond, filt, sel_vec, result>>
    /\ UNCHANGED svars

\* line 144
MakeCondition ==
    /\ qpc = "make_condition"
    /\ cond' = [kind |-> "Condition", root |-> root]
    /\ qpc' = "make_filter"
    /\ UNCHANGED <<table, query, expr, made, root, filt, sel_vec, result, error>>
    /\ UNCHANGED svars

\* line 145
MakeFilter ==
    /\ qpc = "make_filter"
    /\ filt' = [kind |-> "Filter", schema |-> table.names, condition |-> cond]
    /\ qpc' = "evaluate"
    /\ UNCHANGED <<table, query, expr, made, root, cond, sel_vec, result, error>>
    /\ UNCHANGED svars

\* line 145: the engine rejects the condition (no function of that signature)
MakeFilterRaises ==
    /\ qpc = "make_filter"
    /\ error' = Exc("ArrowException", 145, "Condition")
    /\ qpc' = "raised"
    /\ UNCHANGED <<table, query, expr, made, root, cond, filt, sel_vec, result>>
    /\ UNCHANGED svars

\* line 146: the filter is evaluated against the first record batch
Evaluate ==
    /\ qpc = "evaluate"
    /\ Len(to_batches(table)) > 0
    /\ \E indices \in evaluate(filt.condition, to_batches(table)[1]) :
           sel_vec' = SelectionVector(indices)
    /\ qpc' = "filter_with_selection_vector"
    /\ UNCHANGED <<table, query, expr, made, root, cond, filt, result, error>>
    /\ UNCHANGED svars

\* line 146: table.to_batches()[0] of a table without batches
EvaluateNoBatch ==
    /\ qpc = "evaluate"
    /\ Len(to_batches(table)) = 0
    /\ error' = Exc("IndexError", 146, "Table")
    /\ qpc' = "raised"
    /\ UNCHANGED <<table, query, expr, made, root, cond, filt, sel_vec, result>>
    /\ UNCHANGED svars

\* lines 147-148
FilterWithSelectionVector ==
    /\ qpc = "filter_with_selection_vector"
    /\ result' = filter_with_selection_vector(table, sel_vec)
    /\ qpc' = "return"
    /\ UNCHANGED <<table, query, expr, made, root, cond, filt, sel_vec, error>>
    /\ UNCHANGED svars

NextQuery ==
    \/ GenTableExpr
    \/ GenTableExprUndefined
    \/ RootIsCondition
    \/ RootIsNoCondition
    \/ BuildRoot
    \/ BuildRootRaises
    \/ MakeCondition
    \/ MakeFilter
    \/ MakeFilterRaises
    \/ Evaluate
    \/ EvaluateNoBatch
    \/ FilterWithSelectionVector

SpecQuery == InitQuery /\ [][NextQuery]_vars

(***************************************************************************)
(* build_node on its own                                                   *)
(***************************************************************************)
CallBuildNode ==
    /\ qpc = "call_build_node"
    /\ build_node(query).ok
    /\ root' = build_node(query).node
    /\ made' = build_node(query).made
    /\ qpc' = "build_node_returned"
    /\ UNCHANGED <<table, query, expr, cond, filt, sel_vec, result, error>>
    /\ UNCHANGED svars

CallBuildNodeRaises ==
    /\ qpc = "call_build_node"
    /\ ~build_node(query).ok
    /\ error' = build_node(query).err
    /\ made' = build_node(query).made
    /\ qpc' = "build_node_raised"
    /\ UNCHANGED <<table, query, expr, root, cond, filt, sel_vec, result>>
    /\ UNCHANGED svars

NextBuildNode ==
    \/ CallBuildNode
    \/ CallBuildNodeRaises

SpecBuildNode == InitBuildNode /\ [][NextBuildNode]_vars

(***************************************************************************)
(* GandivaQueryCompiler.sum (lines 172-191)                                *)
(***************************************************************************)
NumCells == partitions.rows * partitions.cols

\* the number of tasks line 174 has submitted so far
NumSubmitted == Cardinality({cell \in DOMAIN new_partitions :
                               new_partitions[cell].state # "unsubmitted"})

\* lines 174-179: sum_pyarrow_table.remote(part.oid) for the next partition;
\* nothing is awaited between two submissions
Dispatch ==
    /\ spc = "dispatch"
    /\ LET cell == CellAt(NumSubmitted + 1, partitions.cols) IN
       /\ new_partitions' = [new_partitions EXCEPT ![cell] = Pending]
       /\ submitted' = [submitted EXCEPT ![cell] = @ + 1]
    /\ spc' = IF AllDispatched(NumSubmitted + 1, partitions) THEN "gather" ELSE "dispatch"
    /\ UNCHANGED <<partitions, sum_partitions, names, accumulator, fi, fj,
                   sum_result, sum_error>>
    /\ UNCHANGED qvars

\* a worker runs a submitted task to its end
RunTask ==
    /\ \E cell \in DOMAIN new_partitions :
           /\ new_partitions[cell].state = "pending"
           /\ new_partitions' =
                  [new_partitions EXCEPT ![cell] = Done(sum_pyarrow_table(partitions.parts[cell]))]
    /\ UNCHANGED <<partitions, submitted, spc, sum_partitions, names, accumulator,
                   fi, fj, sum_result, sum_error>>
    /\ UNCHANGED qvars

\* a submitted task fails (the worker dies, the task raises)
FailTask ==
    /\ \E cell \in DOMAIN new_partitions :
           /\ new_partitions[cell].state = "pending"
           /\ new_partitions' = [new_partitions EXCEPT ![cell] = Failed]
    /\ UNCHANGED <<partitions, submitted, spc, sum_partitions, names, accumulator,
                   fi, fj, sum_result, sum_error>>
    /\ UNCHANGED qvars

\* line 180: ray.get returns once every task it was given has returned
Gather ==
    /\ spc = "gather"
    /\ \A cell \in GatherCells(partitions) : new_partitions[cell].state = "done"
    /\ sum_partitions' = [r \in 1..partitions.rows |-> new_partitions[<<r, 1>>].value]
    /\ spc' = "names"
    /\ UNCHANGED <<partitions, new_partitions, submitted, names, accumulator, fi, fj,
                   sum_result, sum_error>>
    /\ UNCHANGED qvars

\* line 180: ray.get raises the error of a task it was given
GatherRaises ==
    /\ spc = "gather"
    /\ \E cell \in GatherCells(partitions) : new_partitions[cell].state = "failed"
    /\ sum_error' = Exc("RayTaskError", 180, "ObjectID")
    /\ spc' = "raised"
    /\ UNCHANGED <<partitions, new_partitions, submitted, sum_partitions, names,
                   accumulator, fi, fj, sum_result>>
    /\ UNCHANGED qvars

\* lines 181-182, and the entry into the loops of lines 183-184
InitAccumulator ==
    /\ spc = "names"
    /\ names' = sum_partitions[1].names
    /\ accumulator' = [name \in {sum_partitions[1].names[i] :
                                   i \in 1..Len(sum_partitions[1].names)} |-> 0]
    /\ fi' = 0
    /\ fj' = 1
    /\ spc' = IF Len(sum_partitions[1].names) = 0 THEN "finalize" ELSE "fold"
    /\ UNCHANGED <<partitions, new_partitions, submitted, sum_partitions, sum_result,
                   sum_error>>
    /\ UNCHANGED qvars

\* line 185: accumulator[name] += sum_partition.columns[i].data[0].as_py()
FoldAdd ==
    /\ spc = "fold"
    /\ fi + 1 <= Len(sum_partitions[fj].values)
    /\ accumulator' = [accumulator EXCEPT ![names[fi + 1]] = @ + sum_partitions[fj].values[fi + 1]]
    /\ IF fj < Len(sum_partitions)
       THEN fj' = fj + 1 /\ fi' = fi /\ spc' = "fold"
       ELSE /\ fj' = 1
            /\ fi' = fi + 1
            /\ spc' = IF fi + 1 = Len(names) THEN "finalize" ELSE "fold"
    /\ UNCHANGED <<partitions, new_partitions, submitted, sum_partitions, names,
                   sum_result, sum_error>>
    /\ UNCHANGED qvars

\* line 185: sum_partition.columns[i] of a partial result with fewer columns
FoldIndexError ==
    /\ spc = "fold"
    /\ fi + 1 > Len(sum_partitions[fj].values)
    /\ sum_error' = Exc("IndexError", 185, "Table")
    /\ spc' = "raised"
    /\ UNCHANGED <<partitions, new_partitions, submitted, sum_partitions, names,
                   accumulator, fi, fj, sum_result>>
    /\ UNCHANGED qvars

\* lines 187-191
Finalize ==
    /\ spc = "finalize"
    /\ sum_result' = [kind |-> "Table",
                      names |-> names,
                      types |-> sum_partitions[1].types,
                      values |-> [i \in 1..Len(names) |-> accumulator[names[i]]]]
    /\ spc' = "return"
    /\ UNCHANGED <<partitions, new_partitions, submitted, sum_partitions, names,
                   accumulator, fi, fj, sum_error>>
    /\ UNCHANGED qvars

NextSum ==
    \/ Dispatch
    \/ RunTask
    \/ FailTask
    \/ Gather
    \/ GatherRaises
    \/ InitAccumulator
    \/ FoldAdd
    \/ FoldIndexError
    \/ Finalize

SpecSum == InitSum /\ [][NextSum]_vars

(***************************************************************************)
(* The vocabulary of the properties                                        *)
(***************************************************************************)
\* a root the filter validator is to accept
ConditionShaped(t) ==
    \/ t.kind = "BinOp" /\ t.op \in CmpSyms \cup LogicSyms
    \/ t.kind = "UnaryOp" /\ t.op = "~"

\* the error classes, by the statement that raises
InvalidFilterRoot(e) == e.kind = "Error" /\ e.exc = "ValueError" /\ e.line = 141
UnsupportedOperator(e) ==
    /\ e.kind = "Error"
    /\ \/ e.exc = "KeyError" /\ e.line = 106
       \/ e.exc = "TypeError" /\ e.line = 120 /\ e.term = "BinOp"
CompileTimeError(e) == e.kind = "Error" /\ e.line \in {139, 141, 82, 94, 106, 117, 120}

\* some BinOp or UnaryOp of the tree has an operator outside the supported ones
RECURSIVE HasOtherOperator(_)
HasOtherOperator(t) ==
    IF t.kind = "BinOp"
    THEN \/ t.op \notin LogicSyms \cup CmpSyms \cup ArithSyms
         \/ HasOtherOperator(t.lhs)
         \/ HasOtherOperator(t.rhs)
    ELSE IF t.kind = "UnaryOp" THEN t.op # "~" \/ HasOtherOperator(t.operand)
    ELSE IF t.kind = "MathCall" THEN HasOtherOperator(t.operands[1])
    ELSE FALSE

\* some node of the tree is a call of an unsupported function or of an
\* unsupported kind
RECURSIVE HasOtherDefect(_)
HasOtherDefect(t) ==
    IF t.kind = "BinOp" THEN HasOtherDefect(t.lhs) \/ HasOtherDefect(t.rhs)
    ELSE IF t.kind = "UnaryOp" THEN HasOtherDefect(t.operand)
    ELSE IF t.kind = "MathCall"
    THEN t.op \notin {"log", "exp", "log10", "cbrt"} \/ HasOtherDefect(t.operands[1])
    ELSE t.kind \notin {"Constant", "Term"}

NothingBuilt == cond = None /\ filt = None /\ sel_vec = None /\ result = None

(***************************************************************************)
(* C1: a query whose root is not condition-shaped (not a comparison, not a *)
(* logical connective, not a negation) makes gandiva_query fail with       *)
(* InvalidFilterRoot, and no expression node, filter program or result     *)
(* table is built for it.                                                  *)
(***************************************************************************)
C1_InvalidFilterRoot ==
    (expr # None /\ ~ConditionShaped(expr)) =>
        /\ qpc \in {"can_be_condition", "raised"}
        /\ qpc = "raised" => InvalidFilterRoot(error)
        /\ made = 0 /\ root = None /\ NothingBuilt

\* the root a + b has been refused
C1_Witness ==
    /\ expr = BinOp("+", Term("a"), Term("b"))
    /\ qpc = "raised"
    /\ InvalidFilterRoot(error)
    /\ made = 0

(***************************************************************************)
(* C2: the table gandiva_query returns holds exactly the rows of the       *)
(* partition's table for which the predicate is true, each once, in their  *)
(* original order and under the same column names, whatever the chunk      *)
(* layout of the table.  (Stated for the predicates whose row semantics    *)
(* the model computes.)                                                    *)
(***************************************************************************)
RECURSIVE KeptRows(_, _)
KeptRows(n, rows) ==
    IF rows = <<>> THEN <<>>
    ELSE (IF BoolValue(n, Head(rows)) THEN <<Head(rows)>> ELSE <<>>) \o KeptRows(n, Tail(rows))

C2_ExactlyTheMatchingRows ==
    (qpc = "return" /\ Exact(root)) =>
        /\ result.names = table.names
        /\ result.columns = BatchColumns(KeptRows(root, Flatten(table.batches)))

(***************************************************************************)
(* C7: build_node returns a node for a BinOp only when its operator is a   *)
(* logical connective, a comparison or an arithmetic operator, and for a   *)
(* UnaryOp only when it is "~"; a tree with any other binary or unary      *)
(* operator, at any depth, fails with UnsupportedOperator and no node is   *)
(* returned for the root.                                                  *)
(***************************************************************************)
C7_ReturnsOnlySupported ==
    qpc = "build_node_returned" =>
        /\ query.kind = "BinOp" => query.op \in LogicSyms \cup CmpSyms \cup ArithSyms
        /\ query.kind = "UnaryOp" => query.op = "~"

\* the claim as stated: whatever else the tree contains, UnsupportedOperator
C7_Original ==
    /\ C7_ReturnsOnlySupported
    /\ (qpc # "call_build_node" /\ HasOtherOperator(query)) =>
           /\ qpc = "build_node_raised"
           /\ UnsupportedOperator(error)
           /\ root = None

\* C7 as amended: compilation of such a tree fails and returns no node; the
\* error is UnsupportedOperator when the unsupported operators are the only
\* defect of the tree (an operand that fails first raises its own error)
C7_Amended ==
    /\ C7_ReturnsOnlySupported
    /\ (qpc # "call_build_node" /\ HasOtherOperator(query)) =>
           /\ qpc = "build_node_raised"
           /\ root = None
           /\ ~HasOtherDefect(query) => UnsupportedOperator(error)

\* (a % b) > (a > 2): the unsupported operator sits below the root
C7_Witness ==
    /\ query = BinOp(">", BinOp("%", Term("a"), Term("b")), BinOp(">", Term("a"), Constant(2)))
    /\ qpc = "build_node_raised"
    /\ UnsupportedOperator(error)
    /\ root = None

(***************************************************************************)
(* C8: a filter program is built and evaluated only after root validation  *)
(* and the compilation of the whole tree have succeeded; once a            *)
(* compile-time error is raised, no condition or filter program is built,  *)
(* nothing is evaluated or selected and no result table is produced.       *)
(***************************************************************************)
\* a tree the expression compiler is to accept
Compilable(t) ==
    IF t.kind = "Constant" THEN TRUE
    ELSE IF t.kind = "Term" THEN InSchema(t.name)
    ELSE ~HasOtherOperator(t) /\ ~HasOtherDefect(t)

C8_CompileBeforeExecute ==
    /\ (cond # None \/ filt # None \/ sel_vec # None \/ result # None
        \/ qpc \in {"make_condition", "make_filter", "evaluate",
                    "filter_with_selection_vector", "return"}) =>
           /\ expr # None
           /\ ConditionShaped(expr)
           /\ Compilable(expr)
           /\ root # None
    /\ (sel_vec # None \/ result # None) => filt # None
    /\ (error # None /\ CompileTimeError(error)) => (qpc = "raised" /\ NothingBuilt)

\* the compilation of a condition-shaped root has failed below the root
C8_Witness ==
    /\ qpc = "raised"
    /\ ConditionShaped(expr)
    /\ error.line = 117
    /\ made > 0
    /\ NothingBuilt

(***************************************************************************)
(* The vocabulary of the properties of sum                                 *)
(***************************************************************************)
FirstBlock == {<<r, 1>> : r \in 1..partitions.rows}
OtherBlocks == {cell \in DOMAIN new_partitions : cell[2] > 1}

TaskFailure(e) == e.kind = "Error" /\ e.exc = "RayTaskError"

\* the value a one-row table has under a name, 0 if it lacks the name
ValueByName(t, name) ==
    IF \E i \in 1..Len(t.names) : t.names[i] = name
    THEN t.values[CHOOSE i \in 1..Len(t.names) : t.names[i] = name]
    ELSE 0

HasName(t, name) == \E i \in 1..Len(t.names) : t.names[i] = name

\* the partial sum of every partition of the grid, row by row
AllPartials ==
    [k \in 1..NumCells |-> sum_pyarrow_table(partitions.parts[CellAt(k, partitions.cols)])]

\* the partial sums of the first column-block, in row order
FirstBlockPartials ==
    [r \in 1..partitions.rows |-> sum_pyarrow_table(partitions.parts[<<r, 1>>])]

\* the total, over a sequence of one-row tables, of the values under a name
TotalByName(ts, name) == SumSeq([k \in 1..Len(ts) |-> ValueByName(ts[k], name)])

(***************************************************************************)
(* C3: if any task dispatched for the grid fails, in any row-block and any *)
(* column-block, sum fails: it never returns a table while a dispatched    *)
(* task has failed.                                                        *)
(***************************************************************************)
C3_Original ==
    spc = "return" => \A cell \in DOMAIN new_partitions : new_partitions[cell].state # "failed"

\* C3 as amended: if any task of the first column-block fails, sum fails; it
\* goes on past Gather only when every task of the first column-block has
\* returned its partial sum
C3_Amended ==
    /\ (\E cell \in FirstBlock : new_partitions[cell].state = "failed") =>
           (spc \in {"dispatch", "gather", "raised"} /\ sum_result = None)
    /\ sum_result # None => \A cell \in FirstBlock : new_partitions[cell].state = "done"

\* the task of the second row-block failed and sum raised its error
C3_Witness ==
    /\ partitions.rows >= 2
    /\ new_partitions[<<1, 1>>].state = "done"
    /\ new_partitions[<<2, 1>>].state = "failed"
    /\ spc = "raised"
    /\ TaskFailure(sum_error)
    /\ sum_result = None

(***************************************************************************)
(* C4: sum goes through Dispatch, Gather, Fold, Finalize in that order:    *)
(* one task is submitted for every partition and all are submitted before  *)
(* anything is awaited; Gather is left only when every task of the         *)
(* selected partitions has returned; the accumulator is not touched before *)
(* that, and it is updated one entry at a time by the fold loop.           *)
(***************************************************************************)
C4_Phase ==
    /\ \A cell \in DOMAIN submitted : submitted[cell] <= 1
    /\ spc = "dispatch" => \A cell \in DOMAIN submitted :
           submitted[cell] = (IF new_partitions[cell].state = "unsubmitted" THEN 0 ELSE 1)
    /\ spc # "dispatch" => \A cell \in DOMAIN submitted : submitted[cell] = 1
    /\ spc \in {"names", "fold", "finalize", "return"} =>
           \A cell \in FirstBlock : new_partitions[cell].state = "done"
    /\ spc \in {"dispatch", "gather"} =>
           (accumulator = None /\ sum_partitions = <<>> /\ sum_result = None)
    /\ sum_result # None => spc = "return"

C4_Step ==
    /\ spc' # spc =>
           <<spc, spc'>> \in {<<"dispatch", "gather">>, <<"gather", "names">>,
                              <<"gather", "raised">>, <<"names", "fold">>,
                              <<"names", "finalize">>, <<"fold", "finalize">>,
                              <<"fold", "raised">>, <<"finalize", "return">>}
    /\ accumulator' # accumulator =>
           \/ spc = "names" /\ \A name \in DOMAIN accumulator' : accumulator'[name] = 0
           \/ /\ spc = "fold"
              /\ DOMAIN accumulator' = DOMAIN accumulator
              /\ Cardinality({name \in DOMAIN accumulator :
                                accumulator'[name] # accumulator[name]}) = 1

C4_DispatchGatherFoldFinalize == [](C4_Phase) /\ [][C4_Step]_vars

\* the fold is under way on a grid of several partitions, all of them submitted
C4_Witness ==
    /\ spc = "fold"
    /\ fj = 2
    /\ partitions.cols >= 2
    /\ \A cell \in DOMAIN submitted : submitted[cell] = 1
    /\ accumulator # None

(***************************************************************************)
(* C5: when every partition of the grid has a numeric column x, the value  *)
(* sum returns for x is the total of all x values over all partitions.     *)
(* (Stated for a grid of one column-block, where the first column-block is *)
(* the whole grid.)                                                        *)
(***************************************************************************)
EveryPartitionHasX ==
    \A cell \in DOMAIN partitions.parts :
        \E i \in 1..Len(partitions.parts[cell]) :
            partitions.parts[cell][i].name = "x" /\ IsNumeric(partitions.parts[cell][i])

C5_TotalOfX ==
    (spc = "return" /\ partitions.cols = 1 /\ EveryPartitionHasX) =>
        /\ HasName(sum_result, "x")
        /\ ValueByName(sum_result, "x") = TotalByName(AllPartials, "x")

(***************************************************************************)
(* C6: when one partition of the grid has only non-numeric columns, sum    *)
(* completes, that partition contributes nothing, and every numeric column *)
(* is returned with the total of the other partitions, wherever the        *)
(* non-numeric partition stands in the gather order.  (Stated for a grid   *)
(* of one column-block whose other partitions have the same numeric        *)
(* columns.)                                                               *)
(***************************************************************************)
OneNonNumericPartition ==
    /\ partitions.cols = 1
    /\ partitions.rows >= 2
    /\ Cardinality({r \in 1..partitions.rows : FirstBlockPartials[r].names = <<>>}) = 1
    /\ \A r1, r2 \in 1..partitions.rows :
           (FirstBlockPartials[r1].names # <<>> /\ FirstBlockPartials[r2].names # <<>>) =>
               FirstBlockPartials[r1].names = FirstBlockPartials[r2].names

NumericNames ==
    UNION {{FirstBlockPartials[r].names[i] : i \in 1..Len(FirstBlockPartials[r].names)}
           : r \in 1..partitions.rows}

C6_NonNumericPartition ==
    OneNonNumericPartition =>
        /\ spc = "raised" => TaskFailure(sum_error)
        /\ spc = "return" =>
               \A name \in NumericNames :
                   /\ HasName(sum_result, name)
                   /\ ValueByName(sum_result, name) = TotalByName(FirstBlockPartials, name)

(***************************************************************************)
(* C9: the accumulator has one entry per column name of the first gathered *)
(* partial result; after the fold each entry is the sum, over the          *)
(* row-blocks of the first column-block, of the partition's partial sum    *)
(* for that same name; the returned table lists the names in the first     *)
(* partial result's order with these totals.                               *)
(***************************************************************************)
C9_FoldByName ==
    /\ spc \in {"fold", "finalize", "return"} =>
           DOMAIN accumulator = {sum_partitions[1].names[i] : i \in 1..Len(sum_partitions[1].names)}
    /\ spc \in {"finalize", "return"} =>
           \A name \in DOMAIN accumulator :
               accumulator[name] = TotalByName(sum_partitions, name)
    /\ spc = "return" =>
           /\ sum_result.names = sum_partitions[1].names
           /\ \A i \in 1..Len(sum_result.names) :
                  sum_result.values[i] = TotalByName(sum_partitions, sum_result.names[i])

(***************************************************************************)
(* C10: the tasks of the partitions outside the first column-block are     *)
(* never awaited: whether sum raises and what it returns is decided by the *)
(* first column-block alone, whatever the other column-blocks hold and     *)
(* whether their tasks are pending, done or failed.                        *)
(***************************************************************************)
\* the fold of line 183-185 over the first column-block, column by position
PositionalTotal(i) == SumSeq([r \in 1..partitions.rows |-> FirstBlockPartials[r].values[i]])

FoldOverruns ==
    \E r \in 1..partitions.rows : Len(FirstBlockPartials[r].values) < Len(FirstBlockPartials[1].names)

C10_FirstBlockDecides ==
    /\ (spc = "raised" /\ TaskFailure(sum_error)) =>
           \E cell \in FirstBlock : new_partitions[cell].state = "failed"
    /\ (spc = "raised" /\ ~TaskFailure(sum_error)) => FoldOverruns
    /\ spc \in {"names", "fold", "finalize", "return"} =>
           sum_partitions = FirstBlockPartials
    /\ spc = "return" =>
           /\ ~FoldOverruns
           /\ sum_result.names = FirstBlockPartials[1].names
           /\ \A i \in 1..Len(sum_result.names) : sum_result.values[i] = PositionalTotal(i)

\* sum has returned while a task of another column-block is pending and one
\* has failed
C10_Witness ==
    /\ spc = "return"
    /\ \E cell \in OtherBlocks : new_partitions[cell].state = "pending"
    /\ \E cell \in OtherBlocks : new_partitions[cell].state = "failed"

====
